---- MODULE Spec2Model ----
(***************************************************************************)
(* A model of pdf_bridge.py, the PDF bridge of legal-extractor: the text   *)
(* layer and OCR passes, the seal/watermark line filter, the paragraph     *)
(* folder (smart_merge), the four field extractors, the case segmenter     *)
(* (extract_all_fields), the dual-source merger (merge_records) and main.  *)
(*                                                                         *)
(* A Python str is a sequence of Unicode code points (naturals): 民 is     *)
(* 27665, "\n" is 10.  Character classes are the sets of code points the   *)
(* regular expressions of the source name.                                 *)
(***************************************************************************)
EXTENDS Integers, Sequences, FiniteSets

VARIABLES
    pc,                \* position in main / extract_smart
    argv,              \* [given, exists, opens]: sys.argv[1] and the file behind it
    pdf,               \* pdfplumber's pages: each a sequence of chars [text, top, x0]
    OCR_AVAILABLE,     \* module global set by the guarded import
    engine,            \* [init_ok, extract_ok, pages]: RapidOCR/fitz behaviour, pages of boxes
    text,              \* extract_smart's text / main's text_content
    is_scanned_likely, \* extract_smart's local
    ocr_text,          \* extract_smart's ocr_text / main's ocr_content
    text_records,      \* main's text_records (merge_records may write into it)
    ocr_records,       \* main's ocr_records
    final_records,     \* main's final_records
    result,            \* the JSON object main prints
    ocr_inits,         \* how many times OCRExtractor() has been called
    page_texts,        \* extract_text_only: page_text of every page, in page order
    full_text,         \* OCRExtractor.extract: its full_text list, one entry per page
    cases,             \* extract_all_fields: the list re.split returns
    blocks,            \* extract_all_fields: the case_text values that pass the blank test
    idNumber,          \* what extract_id_number returned
    folded             \* successive results of smart_merge

vars == <<pc, argv, pdf, OCR_AVAILABLE, engine, text, is_scanned_likely, ocr_text,
          text_records, ocr_records, final_records, result, ocr_inits, page_texts,
          full_text, cases, blocks, idNumber, folded>>

(***************************************************************************)
(* Bounds of the explored inputs.                                          *)
(***************************************************************************)
MaxPages == 1
MaxRecs == 2
MaxPieces == 3

(***************************************************************************)
(* Character classes.                                                      *)
(***************************************************************************)
\* '\n' and '\r'
NL == 10
CR == 13

\* str.isspace / \s of a str pattern: the Unicode whitespace code points
WhiteSpace ==
    (9..13) \cup (28..32) \cup {133, 160, 5760} \cup (8192..8202)
    \cup {8232, 8233, 8239, 8287, 12288}

IsSpace(c) == c \in WhiteSpace

InRange(c, lo, hi) == lo <= c /\ c <= hi

\* \d of a str pattern: ASCII digits and the full-width digits (the other
\* Unicode decimal digits are outside the alphabet of the explored texts)
IsDigit(c) == InRange(c, 48, 57) \/ InRange(c, 65296, 65305)

\* [A-Z]
IsUpper(c) == InRange(c, 65, 90)

\* [0-9A-Za-z\s]
IsAsciiAlnumSpace(c) ==
    InRange(c, 48, 57) \/ InRange(c, 65, 90) \/ InRange(c, 97, 122) \/ IsSpace(c)

\* [一-龥]
IsHan(c) == InRange(c, 19968 (* 一 *), 40869 (* 龥 *))

\* \w of a str pattern, as \b reads it: letters (CJK ideographs and full-width
\* letters included), digits and the underscore
IsWord(c) ==
    \/ InRange(c, 48, 57) \/ InRange(c, 65, 90) \/ InRange(c, 97, 122) \/ c = 95
    \/ InRange(c, 19968, 40959)
    \/ InRange(c, 65296, 65305) \/ InRange(c, 65313, 65338) \/ InRange(c, 65345, 65370)

(***************************************************************************)
(* str operations.                                                         *)
(***************************************************************************)
Max(a, b) == IF a >= b THEN a ELSE b
Min(a, b) == IF a <= b THEN a ELSE b

\* min(S)
SetMin(S) == CHOOSE i \in S : \A j \in S : i <= j

\* where a search that succeeds at the indices S matches first: the least of
\* them, or 0
FirstIndex(S) == IF S = {} THEN 0 ELSE SetMin(S)

\* s[i-1:j-1] with 1-based inclusive bounds; empty when j < i
Sub(s, i, j) == IF j < i THEN <<>> ELSE SubSeq(s, i, j)

\* w occurs in s at index i
StartsAt(s, i, w) ==
    /\ i >= 1
    /\ i + Len(w) - 1 <= Len(s)
    /\ \A k \in 1..Len(w) : s[i + k - 1] = w[k]

\* w in s
Contains(s, w) == \E i \in 1..(Len(s) + 1) : StartsAt(s, i, w)

\* the first index >= i that holds no whitespace (Len(s) + 1 when none)
RECURSIVE SkipSpaces(_, _)
SkipSpaces(s, i) ==
    IF i <= Len(s) /\ IsSpace(s[i]) THEN SkipSpaces(s, i + 1) ELSE i

\* the last index <= j that holds no whitespace (0 when none)
RECURSIVE SkipSpacesBack(_, _)
SkipSpacesBack(s, j) ==
    IF j >= 1 /\ IsSpace(s[j]) THEN SkipSpacesBack(s, j - 1) ELSE j

\* s.strip()
Strip(s) == Sub(s, SkipSpaces(s, 1), SkipSpacesBack(s, Len(s)))

RECURSIVE SkipChars(_, _, _)
SkipChars(s, i, set) ==
    IF i <= Len(s) /\ s[i] \in set THEN SkipChars(s, i + 1, set) ELSE i

RECURSIVE SkipCharsBack(_, _, _)
SkipCharsBack(s, j, set) ==
    IF j >= 1 /\ s[j] \in set THEN SkipCharsBack(s, j - 1, set) ELSE j

\* s.strip(chars) and s.lstrip(chars), chars given as a set
StripChars(s, set) == Sub(s, SkipChars(s, 1, set), SkipCharsBack(s, Len(s), set))
LStripChars(s, set) == Sub(s, SkipChars(s, 1, set), Len(s))

\* s.replace(old, new), old not empty: left to right, non-overlapping; each
\* step goes to the next occurrence at or after index i
RECURSIVE ReplaceFrom(_, _, _, _)
ReplaceFrom(s, i, old, new) ==
    LET p == FirstIndex({k \in i..Len(s) : StartsAt(s, k, old)})
    IN  IF p = 0 THEN Sub(s, i, Len(s))
        ELSE Sub(s, i, p - 1) \o new \o ReplaceFrom(s, p + Len(old), old, new)

Replace(s, old, new) == ReplaceFrom(s, 1, old, new)

\* s.split(sep) for a one-character sep: always at least one piece
RECURSIVE SplitFrom(_, _, _)
SplitFrom(s, start, sep) ==
    LET p == FirstIndex({k \in start..Len(s) : s[k] = sep})
    IN  IF p = 0 THEN <<Sub(s, start, Len(s))>>
        ELSE <<Sub(s, start, p - 1)>> \o SplitFrom(s, p + 1, sep)

Split(s, sep) == SplitFrom(s, 1, sep)

\* s without the characters at the indices D, taken up from index i
RECURSIVE DropFrom(_, _, _)
DropFrom(s, i, D) ==
    LET p == FirstIndex({k \in D : k >= i})
    IN  IF p = 0 THEN Sub(s, i, Len(s)) ELSE Sub(s, i, p - 1) \o DropFrom(s, p + 1, D)

\* sep.join(parts)
RECURSIVE Join(_, _)
Join(parts, sep) ==
    IF Len(parts) = 0 THEN <<>>
    ELSE IF Len(parts) = 1 THEN parts[1]
    ELSE parts[1] \o sep \o Join(Tail(parts), sep)

\* ''.join(s.split()): s without its whitespace
RemoveSpaces(s) == SelectSeq(s, LAMBDA c : ~IsSpace(c))

\* The regular expression  w1 \s* w2 \s* ... \s* wn  tried at index i: the index
\* after the match, or 0.  No wk is whitespace, so each \s* takes the whole run.
RECURSIVE SpacedFrom(_, _, _, _)
SpacedFrom(s, i, w, k) ==
    IF i > Len(s) \/ s[i] # w[k] THEN 0
    ELSE IF k = Len(w) THEN i + 1
    ELSE SpacedFrom(s, SkipSpaces(s, i + 1), w, k + 1)

SpacedEnd(s, i, w) == IF i < 1 THEN 0 ELSE SpacedFrom(s, i, w, 1)

\* the same followed by \s*[:：] (a label): the index after the colon, or 0
LabelEnd(s, i, w) ==
    LET e == SpacedEnd(s, i, w)
        c == IF e = 0 THEN 0 ELSE SkipSpaces(s, e)
    IN  IF e # 0 /\ c <= Len(s) /\ s[c] \in { 58 (* : *), 65306 (* ： *) } THEN c + 1 ELSE 0


(***************************************************************************)
(* is_seal_like_text: the line filter.                                     *)
(***************************************************************************)
seal_keywords ==
    { <<31456, 32, 90>> (* 章 Z *),
      <<31614, 32, 89>> (* 签 Y *),
      <<70, 32, 70, 32, 70>> (* F F F *),
      <<21360, 31456>> (* 印章 *),
      <<23376, 32, 67>> (* 子 C *),
      <<30005, 32, 66>> (* 电 B *) }

\* re.search(r'(.)\1{2,}', line): a character other than "\n" three times in a row
HasTripleChar(s) ==
    \E i \in 1..(Len(s) - 2) : s[i] # NL /\ s[i + 1] = s[i] /\ s[i + 2] = s[i]

\* re.search(r'[A-Z]{3,}', line)
HasUpperRun(s) ==
    \E i \in 1..(Len(s) - 2) : IsUpper(s[i]) /\ IsUpper(s[i + 1]) /\ IsUpper(s[i + 2])

\* the number of whitespace characters in a row from index i
SpaceRun(s, i) == SkipSpaces(s, i) - i

\* re.search(r'(.{2,})\s*\1\s*\1', line)
HasRepeatedGroup(s) ==
    \E i \in 1..Len(s) : \E n \in 2..(Len(s) \div 3) :
        /\ i + 3 * n - 1 <= Len(s)
        /\ \A k \in i..(i + n - 1) : s[k] # NL
        /\ \E a \in 0..SpaceRun(s, i + n) :
              /\ StartsAt(s, i + n + a, Sub(s, i, i + n - 1))
              /\ \E b \in 0..SpaceRun(s, i + 2 * n + a) :
                    StartsAt(s, i + 2 * n + a + b, Sub(s, i, i + n - 1))

\* re.match(r'^([A-Z\d]{1,3}\s*){3,}', line): the line opens with three
\* characters of [A-Z\d], whitespace at most between them
RECURSIVE LeadGroups(_, _, _)
LeadGroups(s, i, need) ==
    IF need = 0 THEN TRUE
    ELSE /\ i <= Len(s)
         /\ (IsUpper(s[i]) \/ IsDigit(s[i]))
         /\ LeadGroups(s, SkipSpaces(s, i + 1), need - 1)

is_seal_like_text(text_line) ==
    \/ Len(text_line) = 0
    \/ Len(Strip(text_line)) = 0
    \/ \E keyword \in seal_keywords : Contains(text_line, keyword)
    \/ HasTripleChar(text_line)
    \/ HasUpperRun(text_line)
    \/ /\ \A k \in 1..Len(text_line) : IsAsciiAlnumSpace(text_line[k])
       /\ Len(Strip(text_line)) < 20
    \/ HasRepeatedGroup(text_line)
    \/ LeadGroups(text_line, 1, 3)

(***************************************************************************)
(* clean_watermark_chars.                                                  *)
(***************************************************************************)
\* re.sub(r'([一-龥])\1+', r'\1', text): a run of one ideograph becomes one
CollapseRuns(s) == DropFrom(s, 1, {i \in 2..Len(s) : IsHan(s[i]) /\ s[i] = s[i - 1]})

watermark_patterns ==
    << <<25307, 25307, 25307>> (* 招招招 *),
       <<35777, 35777, 35777>> (* 证证证 *),
       <<39564, 39564, 39564>> (* 验验验 *),
       <<38134, 38134, 38134>> (* 银银银 *),
       <<30721, 30721, 30721>> (* 码码码 *),
       <<21830, 21830, 21830>> (* 商商商 *),
       <<34892, 34892, 34892>> (* 行行行 *) >>

RECURSIVE RemovePatterns(_, _)
RemovePatterns(s, k) ==
    IF k > Len(watermark_patterns) THEN s
    ELSE RemovePatterns(Replace(s, watermark_patterns[k], <<>>), k + 1)

clean_watermark_chars(s) == RemovePatterns(CollapseRuns(s), 1)

(***************************************************************************)
(* smart_merge: the paragraph folder.                                      *)
(***************************************************************************)
\* the placeholder '[LOGICAL_NL]'
LOGICAL_NL == <<91, 76, 79, 71, 73, 67, 65, 76, 95, 78, 76, 93>> (* [LOGICAL_NL] *)

\* [。；？！]
SentenceEnd == { 12290 (* 。 *), 65307 (* ； *), 65311 (* ？ *), 65281 (* ！ *) }

\* [一二三四五六七八九十\d]
Numeral ==
    { 19968 (* 一 *), 20108 (* 二 *), 19977 (* 三 *), 22235 (* 四 *), 20116 (* 五 *), 20845 (* 六 *), 19971 (* 七 *), 20843 (* 八 *), 20061 (* 九 *), 21313 (* 十 *) }
    \cup (48..57) \cup (65296..65305)

\* re.sub(r'\n+', '\n', text)
CollapseNewlines(s) == DropFrom(s, 1, {i \in 2..Len(s) : s[i] = NL /\ s[i - 1] = NL})

\* re.sub(r'([。；？！])\n', r'\1[LOGICAL_NL]', text)
RECURSIVE MarkAfterSentence(_, _)
MarkAfterSentence(s, i) ==
    LET p == FirstIndex({k \in i..(Len(s) - 1) : s[k] \in SentenceEnd /\ s[k + 1] = NL})
    IN  IF p = 0 THEN Sub(s, i, Len(s))
        ELSE Sub(s, i, p) \o LOGICAL_NL \o MarkAfterSentence(s, p + 2)

\* (?:[一二三四五六七八九十\d]+[、．]|[(（][一二三四五六七八九十\d]+[)）]) tried at
\* index j: the index after the match, or 0
EnumEnd(s, j) ==
    LET e1 == SkipChars(s, j, Numeral)
        e2 == SkipChars(s, j + 1, Numeral)
    IN  IF e1 > j /\ e1 <= Len(s) /\ s[e1] \in { 12289 (* 、 *), 65294 (* ． *) } THEN e1 + 1
        ELSE IF /\ j <= Len(s) /\ s[j] \in { 40 (* left paren *), 65288 (* （ *) }
                /\ e2 > j + 1 /\ e2 <= Len(s) /\ s[e2] \in { 41 (* right paren *), 65289 (* ） *) }
             THEN e2 + 1
        ELSE 0

\* re.sub(r'\n(\s*(?:...))', r'[LOGICAL_NL]\1', text)
\* the whole pattern tried at index i: the index after the match, or 0
EnumBreakEnd(s, i) == IF s[i] = NL THEN EnumEnd(s, SkipSpaces(s, i + 1)) ELSE 0

RECURSIVE MarkBeforeEnum(_, _)
MarkBeforeEnum(s, i) ==
    LET p == FirstIndex({k \in i..Len(s) : EnumBreakEnd(s, k) # 0})
    IN  IF p = 0 THEN Sub(s, i, Len(s))
        ELSE Sub(s, i, p - 1) \o LOGICAL_NL \o Sub(s, p + 1, EnumBreakEnd(s, p) - 1)
             \o MarkBeforeEnum(s, EnumBreakEnd(s, p))

\* step 5: per line strip, drop the empty ones, remove the inner whitespace
RECURSIVE CleanLines(_)
CleanLines(lines) ==
    IF Len(lines) = 0 THEN <<>>
    ELSE LET trimmed == Strip(lines[1])
         IN  (IF Len(trimmed) > 0 THEN <<RemoveSpaces(trimmed)>> ELSE <<>>)
             \o CleanLines(Tail(lines))

smart_merge(t) ==
    IF Len(t) = 0 THEN <<>>
    ELSE LET t0 == Strip(t)
             t1 == CollapseNewlines(Replace(t0, <<CR, NL>>, <<NL>>))
             t2 == MarkAfterSentence(t1, 1)
             t3 == MarkBeforeEnum(t2, 1)
             t4 == SelectSeq(t3, LAMBDA c : c # NL)
             t5 == Replace(t4, LOGICAL_NL, <<NL>>)
         IN  Join(CleanLines(Split(t5, NL)), <<NL>>)

(***************************************************************************)
(* The field extractors.                                                   *)
(***************************************************************************)
\* [,，、；;、\s] of pattern_end
EndPunct == { 44 (* , *), 65292 (* ， *), 12289 (* 、 *), 65307 (* ； *), 59 (* ; *) } \cup WhiteSpace

\* the keywords of pattern_end, each read with \s* between its characters
EndKeywords ==
    { <<24615, 21035>> (* 性别 *),
      <<29983, 26085>> (* 生日 *),
      <<36523, 20221, 35777>> (* 身份证 *),
      <<20303, 22336>> (* 住址 *),
      <<32852, 31995, 30005, 35805>> (* 联系电话 *),
      <<29616, 20303>> (* 现住 *),
      <<26696, 30001>> (* 案由 *) }

\* pattern_end matches at index p: a run of EndPunct then a keyword, or 。, or
\* the end of the text
EndAt(s, p) ==
    \/ \E kw \in EndKeywords : SpacedEnd(s, SkipChars(s, p, EndPunct), kw) # 0
    \/ p <= Len(s) /\ s[p] = 12290 (* 。 *)
    \/ p = Len(s) + 1

\* name.strip(' ,，、:：；;\t')
NameTrim == { 32 (* space *), 44 (* , *), 65292 (* ， *), 12289 (* 、 *), 58 (* : *), 65306 (* ： *), 65307 (* ； *), 59 (* ; *), 9 (* tab *) }

extract_defendant(t) ==
    LET i == FirstIndex({k \in 1..Len(t) : LabelEnd(t, k, <<34987, 21578>> (* 被告 *)) # 0})
    IN  IF i = 0 THEN <<>>
        ELSE LET start_idx == LabelEnd(t, i, <<34987, 21578>> (* 被告 *))
                 remaining == Sub(t, start_idx, Len(t))
                 clean_remaining == SelectSeq(remaining, LAMBDA c : c # NL /\ c # CR)
                 p == FirstIndex({k \in 1..(Len(clean_remaining) + 1) :
                                    EndAt(clean_remaining, k)})
                 name == Sub(clean_remaining, 1, p - 1)
             IN  Strip(LStripChars(StripChars(name, NameTrim), { 34987 (* 被 *), 21578 (* 告 *) }))

\* [\dXx]
IsIdChar(c) == IsDigit(c) \/ c \in { 88 (* X *), 120 (* x *) }
IdChar == (48..57) \cup (65296..65305) \cup { 88 (* X *), 120 (* x *) }

\* 身\s*份\s*证\s*号\s*码\s*[:：]\s*([\dXx]{15,18}) tried at index i: <<first, last>>
\* of group 1, or <<0, 0>>
LabeledIdAt(s, i) ==
    LET c == LabelEnd(s, i, <<36523, 20221, 35777, 21495, 30721>> (* 身份证号码 *))
        j == IF c = 0 THEN 0 ELSE SkipSpaces(s, c)
        run == IF c = 0 THEN 0 ELSE SkipChars(s, j, IdChar) - j
    IN  IF c # 0 /\ run >= 15 THEN <<j, j + Min(run, 18) - 1>> ELSE <<0, 0>>

\* \b at index i (between s[i-1] and s[i])
WordBoundary(s, i) ==
    LET before == i > 1 /\ i - 1 <= Len(s) /\ IsWord(s[i - 1])
        after == i >= 1 /\ i <= Len(s) /\ IsWord(s[i])
    IN  before # after

\* \b(\d{17}[\dXx])\b tried at index i
DirectIdAt(s, i) ==
    /\ i + 17 <= Len(s)
    /\ \A k \in i..(i + 16) : IsDigit(s[k])
    /\ IsIdChar(s[i + 17])
    /\ WordBoundary(s, i)
    /\ WordBoundary(s, i + 18)

extract_id_number(t) ==
    LET i == FirstIndex({k \in 1..Len(t) : LabeledIdAt(t, k)[1] # 0})
        d == FirstIndex({k \in 1..Len(t) : DirectIdAt(t, k)})
    IN  IF i # 0 THEN Strip(Sub(t, LabeledIdAt(t, i)[1], LabeledIdAt(t, i)[2]))
        ELSE IF d # 0 THEN Sub(t, d, d + 17)
        ELSE <<>>

\* label\s*[:：]\s*(.*?)\s*closing tried at index i, (?s): <<first, last + 1>> of
\* group 1, or <<0, 0>>.  The lazy group ends at the first index from which
\* whitespace and then the closing words follow.
BlockAt(s, i, label, closing) ==
    LET c == LabelEnd(s, i, label)
        s0 == IF c = 0 THEN 0 ELSE SkipSpaces(s, c)
        e == IF c = 0 THEN 0
             ELSE FirstIndex({k \in s0..Len(s) :
                                SpacedEnd(s, SkipSpaces(s, k), closing) # 0})
    IN  IF c # 0 /\ e # 0 THEN <<s0, e>> ELSE <<0, 0>>

\* the content of the first match of the pattern, as <<found, content>>
BlockSearch(s, label, closing) ==
    LET i == FirstIndex({k \in 1..Len(s) : BlockAt(s, k, label, closing)[1] # 0})
    IN  IF i = 0 THEN <<FALSE, <<>>>>
        ELSE <<TRUE, Sub(s, BlockAt(s, i, label, closing)[1],
                            BlockAt(s, i, label, closing)[2] - 1)>>

extract_request(t) ==
    LET m == BlockSearch(t,
                            <<35785, 35772, 35831, 27714>> (* 诉讼请求 *),
                            <<20107, 23454, 19982, 29702, 30001>> (* 事实与理由 *))
    IN  IF m[1] THEN smart_merge(m[2]) ELSE <<>>

\* the longest content extract_facts_reason's fallback keeps
FactsLimit == 2000

extract_facts_reason(t) ==
    LET m == BlockSearch(t,
                            <<20107, 23454, 19982, 29702, 30001>> (* 事实与理由 *),
                            <<27492, 33268>> (* 此致 *))
        \* fallback: 事\s*实\s*与\s*理\s*由\s*[:：]\s*(.*), (?s)
        label == <<20107, 23454, 19982, 29702, 30001>> (* 事实与理由 *)
        i == FirstIndex({k \in 1..Len(t) : LabelEnd(t, k, label) # 0})
        content == Sub(t, SkipSpaces(t, LabelEnd(t, i, label)), Len(t))
    IN  IF m[1] THEN smart_merge(m[2])
        ELSE IF i # 0
             THEN smart_merge(IF Len(content) > FactsLimit
                              THEN Sub(content, 1, FactsLimit) ELSE content)
        ELSE <<>>

(***************************************************************************)
(* extract_all_fields: the case segmenter and the per-case record.         *)
(***************************************************************************)
\* 民\s*事\s*起\s*诉\s*状 tried at index i: the index after the match, or 0
TitleEnd(s, i) == SpacedEnd(s, i, <<27665, 20107, 36215, 35785, 29366>> (* 民事起诉状 *))

\* re.split(r'民\s*事\s*起\s*诉\s*状', text)
RECURSIVE SplitCases(_, _)
SplitCases(s, start) ==
    LET p == FirstIndex({k \in start..Len(s) : TitleEnd(s, k) # 0})
    IN  IF p = 0 THEN <<Sub(s, start, Len(s))>>
        ELSE <<Sub(s, start, p - 1)>> \o SplitCases(s, TitleEnd(s, p))

re_split(t) == SplitCases(t, 1)

\* the blank test left out
CaseBlocks_KeepBlank(t) == re_split(t)

\* the case_text values the loop does not skip (if not case_text.strip(): continue)
CaseBlocks(t) == SelectSeq(re_split(t), LAMBDA case_text : Len(Strip(case_text)) > 0)

Fields == {"defendant", "idNumber", "request", "factsReason"}

Record(case_text) ==
    [defendant   |-> extract_defendant(case_text),
     idNumber    |-> extract_id_number(case_text),
     request     |-> extract_request(case_text),
     factsReason |-> extract_facts_reason(case_text)]

\* any(v for v in record.values())
AnyField(record) == \E f \in DOMAIN record : Len(record[f]) > 0

RECURSIVE RecordsOf(_)
RecordsOf(bs) ==
    IF Len(bs) = 0 THEN <<>>
    ELSE (IF AnyField(Record(bs[1])) THEN <<Record(bs[1])>> ELSE <<>>)
         \o RecordsOf(Tail(bs))

\* the any() test left out: every block gives a record
extract_all_fields_KeepEmpty(t) ==
    [k \in 1..Len(CaseBlocks(t)) |-> Record(CaseBlocks(t)[k])]

extract_all_fields(t) == RecordsOf(CaseBlocks(t))

(***************************************************************************)
(* merge_records: the dual-source merger.                                  *)
(***************************************************************************)
\* the ID number filled like the other fields: the text value first
MergePair_TextIdFirst(t_rec, o_rec) ==
    [f \in {"defendant", "idNumber", "request", "factsReason"} |->
        IF Len(t_rec[f]) = 0 /\ Len(o_rec[f]) > 0 THEN o_rec[f] ELSE t_rec[f]]

\* one iteration of the equal-count loop: new_rec for the pair (t_rec, o_rec)
MergePair(t_rec, o_rec) ==
    [defendant   |-> IF Len(t_rec.defendant) = 0 /\ Len(o_rec.defendant) > 0
                     THEN o_rec.defendant ELSE t_rec.defendant,
     idNumber    |-> IF Len(o_rec.idNumber) > 0
                     THEN o_rec.idNumber ELSE t_rec.idNumber,
     request     |-> IF Len(t_rec.request) = 0 /\ Len(o_rec.request) > 0
                     THEN o_rec.request ELSE t_rec.request,
     factsReason |-> IF Len(t_rec.factsReason) = 0 /\ Len(o_rec.factsReason) > 0
                     THEN o_rec.factsReason ELSE t_rec.factsReason]

\* t_name == o_name or t_name in o_name or o_name in t_name
NameMatch(t_name, o_name) ==
    t_name = o_name \/ Contains(o_name, t_name) \/ Contains(t_name, o_name)

\* the inner loop without its break: every matching o_rec is consulted until
\* one fills the ID number
FillId_NoBreak(t_rec, o_recs) ==
    LET k == FirstIndex({j \in 1..Len(o_recs) :
                            /\ NameMatch(t_rec.defendant, o_recs[j].defendant)
                            /\ Len(o_recs[j].idNumber) > 0})
    IN  IF k # 0 /\ Len(t_rec.idNumber) = 0
        THEN [t_rec EXCEPT !.idNumber = o_recs[k].idNumber]
        ELSE t_rec

\* one iteration of the unequal-count loop: t_rec after the inner loop, which
\* stops (break) at the first o_rec whose name matches
FillId(t_rec, o_recs) ==
    LET k == FirstIndex({j \in 1..Len(o_recs) :
                            NameMatch(t_rec.defendant, o_recs[j].defendant)})
    IN  IF k # 0 /\ Len(t_rec.idNumber) = 0 /\ Len(o_recs[k].idNumber) > 0
        THEN [t_rec EXCEPT !.idNumber = o_recs[k].idNumber]
        ELSE t_rec

\* merge_records(t_recs, o_recs): the list it returns (ret) and the caller's
\* text_records list after the call (the unequal-count loop assigns into its
\* records in place)
merge_records(t_recs, o_recs) ==
    IF Len(o_recs) = 0 THEN [ret |-> t_recs, text_records |-> t_recs]
    ELSE IF Len(t_recs) = 0 THEN [ret |-> o_recs, text_records |-> t_recs]
    ELSE IF Len(t_recs) = Len(o_recs)
         THEN [ret |-> [i \in 1..Len(t_recs) |-> MergePair(t_recs[i], o_recs[i])],
               text_records |-> t_recs]
    ELSE LET filled == [i \in 1..Len(t_recs) |-> FillId(t_recs[i], o_recs)]
         IN  [ret |-> filled, text_records |-> filled]

(***************************************************************************)
(* extract_text_only: the text-layer pass.                                 *)
(***************************************************************************)
\* round(char['top'], 1), top in hundredths of a point and the result in tenths
\* (the explored tops are never exactly between two tenths)
Round1(top) == (top + 5) \div 10

\* sorted(..., key=lambda c: c['x0']): stable, so a char goes after every char
\* left of it and after the earlier chars at the same x0
SortByX0(cs) ==
    LET n == Len(cs)
        rank == [i \in 1..n |->
                   1 + Cardinality({j \in 1..n : cs[j].x0 < cs[i].x0
                                                 \/ (cs[j].x0 = cs[i].x0 /\ j < i)})]
    IN  [k \in 1..n |-> cs[CHOOSE i \in 1..n : rank[i] = k]]

RECURSIVE ConcatText(_)
ConcatText(cs) == IF Len(cs) = 0 THEN <<>> ELSE cs[1].text \o ConcatText(Tail(cs))

\* line_text of the line keyed y
LineText(chars, y) ==
    ConcatText(SortByX0(SelectSeq(chars, LAMBDA c : Round1(c.top) = y)))

\* sorted(lines.keys())
RECURSIVE SortedSeq(_)
SortedSeq(S) == IF S = {} THEN <<>> ELSE <<SetMin(S)>> \o SortedSeq(S \ {SetMin(S)})

LineKeys(chars) == SortedSeq({Round1(chars[i].top) : i \in 1..Len(chars)})

\* every line_text of the page, top to bottom
AssembledLines(chars) ==
    LET keys == LineKeys(chars)
    IN  [k \in 1..Len(keys) |-> LineText(chars, keys[k])]

\* the filter of one line: what it adds to sorted_lines
KeptLine(line_text) ==
    IF is_seal_like_text(line_text) THEN <<>>
    ELSE LET cleaned_line == clean_watermark_chars(line_text)
         IN  IF Len(Strip(cleaned_line)) > 0 THEN <<cleaned_line>> ELSE <<>>

RECURSIVE KeptLines(_)
KeptLines(lines) ==
    IF Len(lines) = 0 THEN <<>> ELSE KeptLine(lines[1]) \o KeptLines(Tail(lines))

\* page_text of one page; a page without chars goes to page.extract_text, which
\* has nothing to lay out
PageText(chars) ==
    IF Len(chars) > 0 THEN Join(KeptLines(AssembledLines(chars)), <<NL>>) ELSE <<>>

RECURSIVE SumChars(_)
SumChars(pages) == IF Len(pages) = 0 THEN 0 ELSE Len(pages[1]) + SumChars(Tail(pages))

\* a document with fewer chars than this is taken for a scan
ScanThreshold == 50

\* extract_text_only(pdf_path) on the opened document
extract_text_only(pages) ==
    LET texts == [p \in 1..Len(pages) |-> PageText(pages[p])]
        extracted_pages == SelectSeq(texts, LAMBDA page_text : Len(page_text) > 0)
    IN  [full_text |-> Join(extracted_pages, <<NL, NL>>),
         is_scanned |-> SumChars(pages) < ScanThreshold,
         page_texts |-> texts]

(***************************************************************************)
(* OCRExtractor.extract: the OCR pass.                                     *)
(***************************************************************************)
\* y_center = sum(p[1] for p in box) / 4 and int(y / 20): the bucket of a box
\* (coordinates are not negative)
BucketHeight == 20
YBucket(b) == (b.box[1][2] + b.box[2][2] + b.box[3][2] + b.box[4][2]) \div (4 * BucketHeight)

\* x_min = min(p[0] for p in box)
XMin(b) == SetMin({b.box[k][1] : k \in 1..4})

\* boxes.sort(key=lambda b: (int(b['y'] / 20), b['x'])): stable
SortBoxes(bs) ==
    LET n == Len(bs)
        before(j, i) ==
            \/ YBucket(bs[j]) < YBucket(bs[i])
            \/ YBucket(bs[j]) = YBucket(bs[i]) /\ XMin(bs[j]) < XMin(bs[i])
            \/ YBucket(bs[j]) = YBucket(bs[i]) /\ XMin(bs[j]) = XMin(bs[i]) /\ j < i
        rank == [i \in 1..n |-> 1 + Cardinality({j \in 1..n : before(j, i)})]
    IN  [k \in 1..n |-> bs[CHOOSE i \in 1..n : rank[i] = k]]

\* page_content of one page: the text of every box, in sorted order
PageContent(ocr_result) ==
    LET boxes == SortBoxes(ocr_result)
    IN  [k \in 1..Len(boxes) |-> boxes[k].text]

\* the full_text list: '\n'.join(page_content) per page
OcrPageTexts(ocr_pages) ==
    [p \in 1..Len(ocr_pages) |-> Join(PageContent(ocr_pages[p]), <<NL>>)]

\* OCRExtractor.extract(pdf_path) when nothing raises
ocr_extract(ocr_pages) == Join(OcrPageTexts(ocr_pages), <<NL, NL>>)

(***************************************************************************)
(* The explored documents.  A text-layer page is a sequence of chars, each *)
(* [text, top, x0] as pdfplumber gives them (top in hundredths of a point);*)
(* an OCR page is a sequence of boxes [box, text] as RapidOCR gives them.  *)
(***************************************************************************)
\* the chars of a page that shows the given lines, one glyph per char, in
\* reverse content order and with a small vertical jitter inside a line
RECURSIVE GlyphsOf(_, _, _)
GlyphsOf(line, row, k) ==
    IF k > Len(line) THEN <<>>
    ELSE GlyphsOf(line, row, k + 1)
         \o <<[text |-> <<line[k]>>, top |-> 7200 + 1800 * row + 2 * (k % 2),
              x0 |-> 9000 + 1200 * k]>>

RECURSIVE Typeset(_, _)
Typeset(lines, row) ==
    IF row > Len(lines) THEN <<>>
    ELSE Typeset(lines, row + 1) \o GlyphsOf(lines[row], row, 1)

\* the boxes of an OCR page that shows the given lines, one box per line, in
\* reverse order; every second box sits a little lower in its 20-pixel bucket
RECURSIVE BoxesOf(_, _)
BoxesOf(lines, row) ==
    IF row > Len(lines) THEN <<>>
    ELSE LET y == 40 * row + 6 * (row % 2)
         IN  BoxesOf(lines, row + 1)
             \o <<[box |-> <<<<30, y>>, <<400, y>>, <<400, y + 12>>, <<30, y + 12>>>>,
                  text |-> lines[row]]>>

PdfPages ==
    { \* a scanned page: no text layer
      <<>>,
      \* one complete filing
      Typeset(<< <<27665, 20107, 36215, 35785, 29366>> (* 民事起诉状 *),
                 <<34987, 21578, 65306, 24352, 19977, 65292, 24615, 21035, 65306, 30007>> (* 被告：张三，性别：男 *),
                 <<36523, 20221, 35777, 21495, 30721, 65306, 49, 49, 48, 49, 48, 49, 49, 57, 57, 48, 48, 49, 48, 49, 49, 50, 51, 52>> (* 身份证号码：110101199001011234 *),
                 <<35785, 35772, 35831, 27714, 65306, 49, 12289, 36824, 27454, 12290>> (* 诉讼请求：1、还款。 *),
                 <<20107, 23454, 19982, 29702, 30001, 65306, 20511, 27454, 26410, 36824, 12290>> (* 事实与理由：借款未还。 *),
                 <<27492, 33268>> (* 此致 *) >>, 1),
      \* one filing whose ID number is an image, under a seal
      Typeset(<< <<26576, 26576, 27861, 38498>> (* 某某法院 *),
                 <<27665, 20107, 36215, 35785, 29366>> (* 民事起诉状 *),
                 <<21360, 31456>> (* 印章 *),
                 <<21407, 21578, 65306, 26446, 22235, 65292, 20303, 22336, 65306, 21271, 20140, 24066>> (* 原告：李四，住址：北京市 *),
                 <<34987, 21578, 65306, 24352, 19977, 65292, 24615, 21035, 65306, 30007>> (* 被告：张三，性别：男 *),
                 <<36523, 20221, 35777, 21495, 30721, 65306>> (* 身份证号码： *),
                 <<35785, 35772, 35831, 27714, 65306, 49, 12289, 36824, 27454, 12290>> (* 诉讼请求：1、还款。 *),
                 <<20107, 23454, 19982, 29702, 30001, 65306, 20511, 27454, 26410, 36824, 12290>> (* 事实与理由：借款未还。 *),
                 <<27492, 33268>> (* 此致 *) >>, 1),
      \* two filings, the second without an ID number, and a stray heading
      Typeset(<< <<26576, 26576, 20844, 21496>> (* 某某公司 *),
                 <<27665, 20107, 36215, 35785, 29366>> (* 民事起诉状 *),
                 <<34987, 21578, 65306, 29579, 20116>> (* 被告：王五 *),
                 <<36523, 20221, 35777, 21495, 30721, 65306, 49, 49, 48, 49, 48, 49, 49, 57, 57, 48, 48, 49, 48, 49, 48, 48, 49, 88>> (* 身份证号码：11010119900101001X *),
                 <<27665, 32, 20107, 32, 36215, 32, 35785, 32, 29366>> (* 民 事 起 诉 状 *),
                 <<25307, 25307, 35777>> (* 招招证 *),
                 <<27665, 20107, 36215, 35785, 29366>> (* 民事起诉状 *),
                 <<34987, 21578, 65306, 24352, 19977, 65292, 20303, 22336, 65306, 21271, 20140>> (* 被告：张三，住址：北京 *),
                 <<20107, 23454, 19982, 29702, 30001, 65306, 27424, 27454, 12290>> (* 事实与理由：欠款。 *),
                 <<36523, 20221, 35777, 22797, 21360, 20214>> (* 身份证复印件 *) >>, 1),
      \* a short page of watermark lines
      Typeset(<< <<30002, 20057, 20057, 30002, 20057, 30002, 20057>> (* 甲乙乙甲乙甲乙 *),
                 <<50, 48, 50, 51, 24180, 49, 26376>> (* 2023年1月 *),
                 <<34987, 21578, 65306, 24352, 19977>> (* 被告：张三 *) >>, 1) }

OcrPages ==
    { \* nothing recognised
      <<>>,
      \* one complete filing
      BoxesOf(<< <<27665, 20107, 36215, 35785, 29366>> (* 民事起诉状 *),
                 <<34987, 21578, 65306, 24352, 19977, 20016, 65292, 24615, 21035, 65306, 30007>> (* 被告：张三丰，性别：男 *),
                 <<36523, 20221, 35777, 21495, 30721, 65306, 49, 49, 48, 49, 48, 49, 49, 57, 57, 48, 48, 49, 48, 49, 49, 50, 51, 52>> (* 身份证号码：110101199001011234 *),
                 <<35785, 35772, 35831, 27714, 65306, 36824, 27454>> (* 诉讼请求：还款 *),
                 <<20107, 23454, 19982, 29702, 30001, 65306, 20511, 27454>> (* 事实与理由：借款 *),
                 <<27492, 33268>> (* 此致 *) >>, 1),
      \* a seal, then a bare ID number
      BoxesOf(<< <<21360, 31456>> (* 印章 *),
                 <<34987, 21578, 65306, 24352, 19977>> (* 被告：张三 *),
                 <<36523, 20221, 35777, 21495, 30721>> (* 身份证号码 *),
                 <<65306, 49, 49, 48, 49, 48, 49, 49, 57, 57, 48, 48, 49, 48, 49, 48, 48, 49, 88>> (* ：11010119900101001X *) >>, 1),
      \* only a heading
      BoxesOf(<< <<26576, 26576, 20844, 21496>> (* 某某公司 *) >>, 1) }

\* the sequences of 1..n elements of S
SeqsUpTo(S, n) == UNION {[1..k -> S] : k \in 1..n}

NoText == [none |-> TRUE, v |-> <<>>]
SomeText(t) == [none |-> FALSE, v |-> t]

\* Python's truth of an optional str: neither None nor ''
Truthy(o) == ~o.none /\ Len(o.v) > 0

Terminal == {"done", "exit1"}

\* values of the variables a specification does not use
NoDocument ==
    /\ argv = [given |-> TRUE, exists |-> TRUE, opens |-> TRUE]
    /\ pdf = <<>>
    /\ OCR_AVAILABLE = FALSE
    /\ engine = [init_ok |-> FALSE, extract_ok |-> FALSE, pages |-> <<>>]
    /\ is_scanned_likely = FALSE
    /\ ocr_text = NoText
    /\ ocr_inits = 0
    /\ page_texts = <<>>
    /\ full_text = <<>>

NoRecords ==
    /\ text_records = <<>>
    /\ ocr_records = <<>>
    /\ final_records = <<>>
    /\ result = [status |-> "none"]

NoFunction ==
    /\ cases = <<>>
    /\ blocks = <<>>
    /\ idNumber = <<>>
    /\ folded = <<>>

(***************************************************************************)
(* main and extract_smart, one action per call.                            *)
(***************************************************************************)
Init ==
    /\ pc = "main"
    /\ \/ /\ argv \in { [given |-> FALSE, exists |-> FALSE, opens |-> FALSE],
                        [given |-> TRUE, exists |-> FALSE, opens |-> FALSE],
                        [given |-> TRUE, exists |-> TRUE, opens |-> FALSE] }
          /\ pdf = <<>>
          /\ OCR_AVAILABLE = TRUE
          /\ engine = [init_ok |-> TRUE, extract_ok |-> FALSE, pages |-> <<>>]
       \/ /\ argv = [given |-> TRUE, exists |-> TRUE, opens |-> TRUE]
          /\ pdf \in SeqsUpTo(PdfPages, MaxPages)
          /\ \/ /\ OCR_AVAILABLE = FALSE
                /\ engine = [init_ok |-> FALSE, extract_ok |-> FALSE, pages |-> <<>>]
             \/ /\ OCR_AVAILABLE = TRUE
                /\ \/ engine \in { [init_ok |-> FALSE, extract_ok |-> FALSE, pages |-> <<>>],
                                   [init_ok |-> TRUE, extract_ok |-> FALSE, pages |-> <<>>] }
                   \/ \E ps \in [1..Len(pdf) -> OcrPages] :
                         engine = [init_ok |-> TRUE, extract_ok |-> TRUE, pages |-> ps]
    /\ text = <<>>
    /\ is_scanned_likely = FALSE
    /\ ocr_text = NoText
    /\ ocr_inits = 0
    /\ page_texts = <<>>
    /\ full_text = <<>>
    /\ NoRecords
    /\ NoFunction

\* main, lines 415-423: the argument and the file are checked before the try
Main_CheckInput ==
    /\ pc = "main"
    /\ IF ~argv.given
       THEN /\ result' = [error |-> "No input file provided", status |-> "failed"]
            /\ pc' = "exit1"
       ELSE IF ~argv.exists
       THEN /\ result' = [error |-> "File not found", status |-> "failed"]
            /\ pc' = "exit1"
       ELSE /\ pc' = "extract_text_only"
            /\ UNCHANGED result
    /\ UNCHANGED <<argv, pdf, OCR_AVAILABLE, engine, text, is_scanned_likely, ocr_text,
                   text_records, ocr_records, final_records, ocr_inits, page_texts,
                   full_text, cases, blocks, idNumber, folded>>

\* extract_smart, line 180: the text-layer pass; pdfplumber.open raises on a
\* file it cannot read, and main's except reports it
ExtractTextOnly ==
    /\ pc = "extract_text_only"
    /\ IF ~argv.opens
       THEN /\ result' = [error |-> "open failed", path |-> "input_file",
                          status |-> "failed"]
            /\ pc' = "exit1"
            /\ UNCHANGED <<text, is_scanned_likely, page_texts>>
       ELSE LET r == extract_text_only(pdf)
            IN  /\ text' = r.full_text
                /\ is_scanned_likely' = r.is_scanned
                /\ page_texts' = r.page_texts
            /\ pc' = "extract_smart"
            /\ UNCHANGED result
    /\ UNCHANGED <<argv, pdf, OCR_AVAILABLE, engine, ocr_text, text_records, ocr_records,
                   final_records, ocr_inits, full_text, cases, blocks, idNumber, folded>>

\* extract_smart, lines 184-189: whether OCR is tried
NeedsOcr ==
    \/ is_scanned_likely
    \/ /\ OCR_AVAILABLE
       /\ Contains(text, <<36523, 20221, 35777>> (* 身份证 *))
       /\ Len(extract_id_number(text)) = 0

ExtractSmart_Decide ==
    /\ pc = "extract_smart"
    /\ is_scanned_likely' = NeedsOcr
    /\ pc' = IF NeedsOcr /\ OCR_AVAILABLE THEN "ocr_init" ELSE "fields"
    /\ UNCHANGED <<argv, pdf, OCR_AVAILABLE, engine, text, ocr_text, text_records,
                   ocr_records, final_records, result, ocr_inits, page_texts, full_text,
                   cases, blocks, idNumber, folded>>

\* OCRExtractor() outside any try: a failure to load the engine reaches main's
\* except
OcrInit_Unguarded ==
    /\ pc = "ocr_init"
    /\ ocr_inits' = ocr_inits + 1
    /\ IF OCR_AVAILABLE /\ engine.init_ok
       THEN pc' = "ocr_extract" /\ UNCHANGED result
       ELSE /\ pc' = "exit1"
            /\ result' = [error |-> "OCR libraries not installed", path |-> "input_file",
                          status |-> "failed"]
    /\ UNCHANGED <<argv, pdf, OCR_AVAILABLE, engine, text, is_scanned_likely, ocr_text,
                   text_records, ocr_records, final_records, page_texts,
                   full_text, cases, blocks, idNumber, folded>>

\* OCRExtractor(), lines 27-30 inside the try of line 190: a failure to load the
\* engine is swallowed by "except Exception: pass"
OcrInit ==
    /\ pc = "ocr_init"
    /\ ocr_inits' = ocr_inits + 1
    /\ pc' = IF OCR_AVAILABLE /\ engine.init_ok THEN "ocr_extract" ELSE "fields"
    /\ UNCHANGED <<argv, pdf, OCR_AVAILABLE, engine, text, is_scanned_likely, ocr_text,
                   text_records, ocr_records, final_records, result, page_texts,
                   full_text, cases, blocks, idNumber, folded>>

\* ocr.extract(pdf_path), lines 32-72 inside the same try
OcrExtract ==
    /\ pc = "ocr_extract"
    /\ IF argv.exists /\ engine.extract_ok
       THEN /\ full_text' = OcrPageTexts(engine.pages)
            /\ ocr_text' = SomeText(ocr_extract(engine.pages))
       ELSE UNCHANGED <<full_text, ocr_text>>
    /\ pc' = "fields"
    /\ UNCHANGED <<argv, pdf, OCR_AVAILABLE, engine, text, is_scanned_likely,
                   text_records, ocr_records, final_records, result, ocr_inits,
                   page_texts, cases, blocks, idNumber, folded>>

\* main, lines 430-436: the records of each source
Main_Fields ==
    /\ pc = "fields"
    /\ text_records' = extract_all_fields(text)
    /\ IF Truthy(ocr_text)
       THEN /\ ocr_records' = extract_all_fields(ocr_text.v)
            /\ final_records' = text_records'
            /\ pc' = "merge"
       ELSE /\ final_records' = text_records'
            /\ pc' = "result"
            /\ UNCHANGED ocr_records
    /\ UNCHANGED <<argv, pdf, OCR_AVAILABLE, engine, text, is_scanned_likely, ocr_text,
                   result, ocr_inits, page_texts, full_text, cases, blocks, idNumber,
                   folded>>

\* main, line 437: final_records = merge_records(text_records, ocr_records)
Merge ==
    /\ pc = "merge"
    /\ LET r == merge_records(text_records, ocr_records)
       IN  /\ final_records' = r.ret
           /\ text_records' = r.text_records
    /\ pc' = "result"
    /\ UNCHANGED <<argv, pdf, OCR_AVAILABLE, engine, text, is_scanned_likely, ocr_text,
                   ocr_records, result, ocr_inits, page_texts, full_text, cases, blocks,
                   idNumber, folded>>

\* main, lines 440-448: the JSON object
Main_Result ==
    /\ pc = "result"
    /\ result' = [path |-> "input_file", records |-> final_records,
                  count |-> Len(final_records), status |-> "success"]
    /\ pc' = "done"
    /\ UNCHANGED <<argv, pdf, OCR_AVAILABLE, engine, text, is_scanned_likely, ocr_text,
                   text_records, ocr_records, final_records, ocr_inits, page_texts,
                   full_text, cases, blocks, idNumber, folded>>

Next ==
    \/ Main_CheckInput
    \/ ExtractTextOnly
    \/ ExtractSmart_Decide
    \/ OcrInit
    \/ OcrExtract
    \/ Main_Fields
    \/ Merge
    \/ Main_Result

Spec == Init /\ [][Next]_vars

\* main is one thread of control and every call in it returns: control does not
\* stay where it is short of the end
Positions ==
    {"main", "extract_text_only", "extract_smart", "ocr_init", "ocr_extract", "fields",
     "merge", "result", "done", "exit1"}

Advance == pc \notin Terminal /\ pc' \in Positions \ {pc}

FairSpec == Spec /\ WF_pc(Advance)

(***************************************************************************)
(* merge_records on record lists of its own.                               *)
(***************************************************************************)
Rec(d, i, r, f) == [defendant |-> d, idNumber |-> i, request |-> r, factsReason |-> f]

TextRecs ==
    { Rec(<<29579, 20116>> (* 王五 *), <<>>,
          <<36824, 27454>> (* 还款 *), <<>>),
      Rec(<<29579, 20116>> (* 王五 *),
          <<49, 49, 48, 49, 48, 49, 49, 57, 57, 48, 48, 49, 48, 49, 49, 50, 51, 52>> (* 110101199001011234 *),
          <<36824, 27454>> (* 还款 *),
          <<27424, 27454, 26410, 36824>> (* 欠款未还 *)),
      Rec(<<>>, <<>>, <<>>, <<27424, 27454, 26410, 36824>> (* 欠款未还 *)),
      Rec(<<26446, 22235>> (* 李四 *), <<>>, <<>>, <<>>),
      Rec(<<>>, <<49, 49, 48, 49, 48, 49, 49, 57, 57, 48, 48, 49, 48, 49, 49, 50, 51, 52>> (* 110101199001011234 *), <<>>, <<>>),
      Rec(<<24352, 19977>> (* 张三 *), <<>>,
          <<36824, 27454>> (* 还款 *), <<>>) }

OcrRecs ==
    { Rec(<<29579, 20116, 26126>> (* 王五明 *),
          <<49, 49, 48, 49, 48, 49, 49, 57, 57, 48, 48, 49, 48, 49, 48, 48, 49, 88>> (* 11010119900101001X *), <<>>, <<>>),
      Rec(<<29579, 20116>> (* 王五 *), <<>>,
          <<36824, 38065>> (* 还钱 *),
          <<20511, 27454>> (* 借款 *)),
      Rec(<<>>,
                <<49, 49, 48, 49, 48, 49, 49, 57, 57, 48, 48, 49, 48, 49, 48, 48, 49, 88>> (* 11010119900101001X *),
                <<36824, 38065>> (* 还钱 *), <<>>),
      Rec(<<19977>> (* 三 *),
          <<49, 49, 48, 49, 48, 49, 49, 57, 56, 53, 48, 53, 48, 53, 48, 48, 49, 49>> (* 110101198505050011 *), <<>>,
          <<20511, 27454>> (* 借款 *)),
      Rec(<<26446, 22235>> (* 李四 *), <<>>, <<>>,
          <<20511, 27454>> (* 借款 *)),
      Rec(<<36213, 20845>> (* 赵六 *),
          <<49, 49, 48, 49, 48, 49, 49, 57, 56, 53, 48, 53, 48, 53, 48, 48, 49, 49>> (* 110101198505050011 *),
          <<36824, 38065>> (* 还钱 *),
          <<20511, 27454>> (* 借款 *)) }

\* the sequences of 0..n elements of S
ListsUpTo(S, n) == UNION {[1..k -> S] : k \in 0..n}

InitMerge ==
    /\ pc = "merge"
    /\ text_records \in ListsUpTo(TextRecs, MaxRecs)
    /\ ocr_records \in ListsUpTo(OcrRecs, MaxRecs)
    /\ final_records = text_records
    /\ result = [status |-> "none"]
    /\ text = <<>>
    /\ NoDocument
    /\ NoFunction

NextMerge == Merge \/ Main_Result

SpecMerge == InitMerge /\ [][NextMerge]_vars

(***************************************************************************)
(* The text functions on texts of their own: a text is a concatenation of  *)
(* at most MaxPieces pieces.                                               *)
(***************************************************************************)
RECURSIVE Flatten(_)
Flatten(ps) == IF Len(ps) = 0 THEN <<>> ELSE ps[1] \o Flatten(Tail(ps))

TextsOf(pieces) == {Flatten(ps) : ps \in ListsUpTo(pieces, MaxPieces)}

FoldPieces ==
    { <<20511>> (* 借 *),
      <<10>> (* newline *),
      <<32>> (* space *),
      <<12290>> (* 。 *),
      <<49, 12289>> (* 1、 *),
      <<65288, 19968, 65289>> (* （一） *),
      <<13, 10>> (* carriage return newline *),
      <<91, 76, 79, 71, 73, 67, 65, 76, 95, 78, 76, 93>> (* [LOGICAL_NL] *),
      <<65307>> (* ； *) }

SegPieces ==
    { <<27665, 20107, 36215, 35785, 29366>> (* 民事起诉状 *),
      <<27665, 32, 20107, 10, 36215, 35785, 29366>> (* 民 事\n起诉状 *),
      <<27665, 20107>> (* 民事 *),
      <<36215, 35785, 29366>> (* 起诉状 *),
      <<34987, 21578, 65306, 24352, 19977>> (* 被告：张三 *),
      <<32>> (* space *),
      <<10>> (* newline *),
      <<26576, 26576, 20844, 21496>> (* 某某公司 *) }

IdPieces ==
    { <<36523, 20221, 35777, 21495, 30721, 65306>> (* 身份证号码： *),
      <<49, 49, 48, 49, 48, 49, 49, 57, 57, 48, 48, 49, 48, 49, 49, 50, 51, 52>> (* 110101199001011234 *),
      <<49, 49, 48, 49, 48, 49, 49, 56, 48, 48, 48, 49, 48, 49, 49, 50, 51, 52>> (* 110101180001011234 *),
      <<32479, 19968, 31038, 20250, 20449, 29992, 20195, 30721, 65306>> (* 统一社会信用代码： *),
      <<49, 49, 48, 49, 48, 49, 49, 57, 57, 48, 48, 49, 48, 49, 48, 48, 49, 88>> (* 11010119900101001X *),
      <<32>> (* space *),
      <<21495>> (* 号 *),
      <<65292>> (* ， *),
      <<49, 49, 48, 49, 48, 49, 49, 57, 57, 48>> (* 1101011990 *) }

InitText(pieces) ==
    /\ pc = "call"
    /\ text \in TextsOf(pieces)
    /\ NoDocument
    /\ NoRecords
    /\ NoFunction

\* smart_merge(text), and smart_merge of what it returned
SmartMerge ==
    /\ pc = "call"
    /\ folded' = <<smart_merge(text)>>
    /\ pc' = "again"
    /\ UNCHANGED <<argv, pdf, OCR_AVAILABLE, engine, text, is_scanned_likely, ocr_text,
                   text_records, ocr_records, final_records, result, ocr_inits,
                   page_texts, full_text, cases, blocks, idNumber>>

SmartMergeAgain ==
    /\ pc = "again"
    /\ folded' = Append(folded, smart_merge(folded[1]))
    /\ pc' = "returned"
    /\ UNCHANGED <<argv, pdf, OCR_AVAILABLE, engine, text, is_scanned_likely, ocr_text,
                   text_records, ocr_records, final_records, result, ocr_inits,
                   page_texts, full_text, cases, blocks, idNumber>>

InitFold == InitText(FoldPieces)
NextFold == SmartMerge \/ SmartMergeAgain
SpecFold == InitFold /\ [][NextFold]_vars

\* extract_all_fields(text), lines 393-399: the split and the blank test
Segment ==
    /\ pc = "call"
    /\ cases' = re_split(text)
    /\ blocks' = CaseBlocks(text)
    /\ pc' = "returned"
    /\ UNCHANGED <<argv, pdf, OCR_AVAILABLE, engine, text, is_scanned_likely, ocr_text,
                   text_records, ocr_records, final_records, result, ocr_inits,
                   page_texts, full_text, idNumber, folded>>

InitSeg == InitText(SegPieces)
NextSeg == Segment
SpecSeg == InitSeg /\ [][NextSeg]_vars

\* extract_id_number(text)
ExtractId ==
    /\ pc = "call"
    /\ idNumber' = extract_id_number(text)
    /\ pc' = "returned"
    /\ UNCHANGED <<argv, pdf, OCR_AVAILABLE, engine, text, is_scanned_likely, ocr_text,
                   text_records, ocr_records, final_records, result, ocr_inits,
                   page_texts, full_text, cases, blocks, folded>>

InitId == InitText(IdPieces)
NextId == ExtractId
SpecId == InitId /\ [][NextId]_vars

(***************************************************************************)
(* Properties.                                                             *)
(***************************************************************************)
OtherFields == {"defendant", "request", "factsReason"}

\* C1: merge_records on two non-empty lists of equal length n returns n records;
\* record i takes idNumber from the OCR record when that one is non-empty and
\* from the text record otherwise, and takes defendant, request and factsReason
\* from the text record when non-empty and from the OCR record otherwise.
C1_EqualCountMerge ==
    [][(pc = "merge" /\ Len(text_records) > 0 /\ Len(ocr_records) = Len(text_records))
       => /\ Len(final_records') = Len(text_records)
          /\ \A i \in 1..Len(text_records) :
                /\ final_records'[i].idNumber =
                      IF Len(ocr_records[i].idNumber) > 0
                      THEN ocr_records[i].idNumber ELSE text_records[i].idNumber
                /\ \A f \in OtherFields :
                      final_records'[i][f] =
                         IF Len(text_records[i][f]) > 0
                         THEN text_records[i][f] ELSE ocr_records[i][f]]_vars

\* an equal-count merge in which an OCR ID number replaced a different text one
\* and an OCR defendant filled an empty text one
C1_Witness ==
    /\ pc = "result"
    /\ Len(text_records) = 2
    /\ Len(ocr_records) = 2
    /\ \E i \in 1..2 :
          /\ Len(text_records[i].idNumber) > 0
          /\ Len(ocr_records[i].idNumber) > 0
          /\ text_records[i].idNumber # ocr_records[i].idNumber
          /\ final_records[i].idNumber = ocr_records[i].idNumber
    /\ \E j \in 1..2 :
          /\ Len(text_records[j].defendant) = 0
          /\ Len(ocr_records[j].defendant) > 0
          /\ final_records[j].defendant = ocr_records[j].defendant

\* a occurs in b as a contiguous run
IsSubstring(a, b) ==
    \E p \in 0..(Len(b) - Len(a)) : \A k \in 1..Len(a) : b[p + k] = a[k]

\* the defendant names are identical, or one is a substring of the other
SameParty(t_name, o_name) ==
    t_name = o_name \/ IsSubstring(t_name, o_name) \/ IsSubstring(o_name, t_name)

\* C2: merge_records on two non-empty lists of different lengths returns the
\* text records in their order with defendant, request and factsReason as they
\* were; idNumber is the text value if non-empty, otherwise the idNumber of the
\* first OCR record whose defendant matches (whatever later ones hold),
\* otherwise empty.  No record is added.
C2_UnequalCountMerge ==
    [][(pc = "merge" /\ Len(text_records) > 0 /\ Len(ocr_records) > 0
                     /\ Len(ocr_records) # Len(text_records))
       => /\ Len(final_records') = Len(text_records)
          /\ \A i \in 1..Len(text_records) :
                LET matching == {j \in 1..Len(ocr_records) :
                                   SameParty(text_records[i].defendant,
                                             ocr_records[j].defendant)}
                IN  /\ \A f \in OtherFields : final_records'[i][f] = text_records[i][f]
                    /\ final_records'[i].idNumber =
                          IF Len(text_records[i].idNumber) > 0
                          THEN text_records[i].idNumber
                          ELSE IF matching # {}
                          THEN ocr_records[SetMin(matching)].idNumber
                          ELSE <<>>]_vars

\* an unequal-count merge in which the first OCR record does not match, the
\* second does by substring, and its ID number is the one returned
C2_Witness ==
    /\ pc = "result"
    /\ Len(final_records) = 1
    /\ Len(ocr_records) = 2
    /\ ~SameParty(final_records[1].defendant, ocr_records[1].defendant)
    /\ final_records[1].defendant # ocr_records[2].defendant
    /\ SameParty(final_records[1].defendant, ocr_records[2].defendant)
    /\ Len(ocr_records[1].idNumber) > 0
    /\ Len(ocr_records[2].idNumber) > 0
    /\ ocr_records[1].idNumber # ocr_records[2].idNumber
    /\ final_records[1].idNumber = ocr_records[2].idNumber

\* C3: merge_records leaves both of its argument lists, and every record in
\* them, as they were before the call.
C3_InputsUnchanged ==
    [][pc = "merge" => text_records' = text_records /\ ocr_records' = ocr_records]_vars

\* the blocks of a text from which at least one field is extracted
BlocksWithField(t) ==
    {k \in 1..Len(CaseBlocks(t)) :
        \/ Len(extract_defendant(CaseBlocks(t)[k])) > 0
        \/ Len(extract_id_number(CaseBlocks(t)[k])) > 0
        \/ Len(extract_request(CaseBlocks(t)[k])) > 0
        \/ Len(extract_facts_reason(CaseBlocks(t)[k])) > 0}

WellFormed(recs) ==
    \A i \in 1..Len(recs) :
        /\ DOMAIN recs[i] = {"defendant", "idNumber", "request", "factsReason"}
        /\ \E f \in DOMAIN recs[i] : recs[i][f] # <<>>

\* C4: every record of the pipeline (of either source, and of the final list)
\* has exactly the keys defendant, idNumber, request, factsReason and a non-empty
\* value under at least one; a block from which no field is extracted gives no
\* record; and the reported count is the length of the reported list.
C4_RecordsWellFormed ==
    /\ WellFormed(text_records)
    /\ WellFormed(ocr_records)
    /\ WellFormed(final_records)
    /\ pc \in {"merge", "result", "done"} =>
          /\ Len(text_records) = Cardinality(BlocksWithField(text))
          /\ Truthy(ocr_text) => Len(ocr_records) = Cardinality(BlocksWithField(ocr_text.v))
    /\ pc = "done" =>
          /\ result.records = final_records
          /\ result.count = Len(final_records)

\* a finished run that merged OCR records, returned a record, and dropped a
\* block of the text layer from which no field was extracted
C4_Witness ==
    /\ pc = "done"
    /\ Truthy(ocr_text)
    /\ Len(ocr_records) > 0
    /\ result.count > 0
    /\ Len(CaseBlocks(text)) > Len(text_records)

\* C5: smart_merge(smart_merge(t)) = smart_merge(t) for every text t.
C5_Idempotent == pc = "returned" /\ Len(folded) = 2 => folded[2] = folded[1]

\* the indices of a text at which the filing title matches
TitleStarts(t) == {i \in 1..Len(t) : TitleEnd(t, i) # 0}

\* the blocks occur in the text one after the other, without overlap
RECURSIVE InOrder(_, _, _, _)
InOrder(bs, k, t, from) ==
    \/ k > Len(bs)
    \/ \E p \in from..(Len(t) + 1) :
          /\ \A q \in 1..Len(bs[k]) : p + q - 1 <= Len(t) /\ t[p + q - 1] = bs[k][q]
          /\ InOrder(bs, k + 1, t, p + Len(bs[k]))

Blank(t) == \A i \in 1..Len(t) : IsSpace(t[i])

\* what C6 and its amended form share: at most k + 1 blocks for k occurrences of
\* the title, in document order, none blank, none holding a title
SegmentsSound ==
    /\ Len(blocks) <= Cardinality(TitleStarts(text)) + 1
    /\ InOrder(blocks, 1, text, 1)
    /\ \A k \in 1..Len(blocks) : ~Blank(blocks[k]) /\ TitleStarts(blocks[k]) = {}

\* C6 as stated: ... and a text without the title gives exactly one block, the
\* whole text.
C6_Segments ==
    pc = "returned" =>
       /\ SegmentsSound
       /\ TitleStarts(text) = {} => blocks = <<text>>

\* C6, amended: ... and a text without the title gives exactly one block, the
\* whole text, unless the text is empty or all whitespace, which gives no block.
C6_SegmentsAmended ==
    pc = "returned" =>
       /\ SegmentsSound
       /\ TitleStarts(text) = {} => blocks = IF Blank(text) THEN <<>> ELSE <<text>>

\* a text with two titles around one filing: three pieces, of which one is kept
C6_Witness ==
    /\ pc = "returned"
    /\ Cardinality(TitleStarts(text)) = 2
    /\ Len(cases) = 3
    /\ Len(blocks) = 1

\* the year of birth an 18-character ID number holds (characters 7 to 10)
BirthYear(id) ==
    1000 * (id[7] - 48) + 100 * (id[8] - 48) + 10 * (id[9] - 48) + (id[10] - 48)

\* wording that marks the number after it as an organisation's code
OrgWords == { <<32479, 19968, 31038, 20250, 20449, 29992, 20195, 30721>> (* 统一社会信用代码 *),
              <<20449, 29992, 20195, 30721>> (* 信用代码 *),
              <<32452, 32455, 26426, 26500, 20195, 30721>> (* 组织机构代码 *) }

\* the text has a labelled ID number
HasLabeledId(t) == \E i \in 1..Len(t) : LabeledIdAt(t, i)[1] # 0

\* C7: on a block without a labelled ID number, extract_id_number returns an
\* 18-character sequence only if it occurs in the block with a year of birth in
\* 1900..2030 and no organisation wording in the 10 characters before it.
C7_ValidatedId ==
    (pc = "returned" /\ ~HasLabeledId(text) /\ idNumber # <<>>) =>
       \E d \in 1..Len(text) :
          /\ StartsAt(text, d, idNumber)
          /\ BirthYear(idNumber) \in 1900..2030
          /\ \A w \in OrgWords : ~Contains(Sub(text, Max(1, d - 10), d - 1), w)

\* the text layer looks scanned, or names an ID but holds no ID number
OcrTriggered ==
    \/ SumChars(pdf) < 50
    \/ IsSubstring(<<36523, 20221, 35777>> (* 身份证 *), text) /\ extract_id_number(text) = <<>>

\* the engine is missing, is not asked, cannot be loaded or raises
OcrTrouble ==
    ~OCR_AVAILABLE \/ ~OcrTriggered \/ ~engine.init_ok \/ ~engine.extract_ok

InputReadable == argv.given /\ argv.exists /\ argv.opens

\* what C8 says of every state of a run
OcrHarmless ==
    /\ ocr_inits <= 1
    /\ ocr_inits = 1 => OCR_AVAILABLE /\ OcrTriggered
    /\ InputReadable => pc # "exit1"
    /\ pc = "done" /\ OcrTrouble =>
          /\ result.status = "success"
          /\ result.records = extract_all_fields(text)
          /\ result.count = Len(result.records)

\* C8: a run whose document opens never fails and always terminates; when the
\* OCR engine is missing, is not triggered, cannot be loaded or raises, it ends
\* in a success with exactly the records of the text layer; and OCRExtractor()
\* is called at most once, and only when the engine is installed and the text
\* layer has fewer than 50 characters or names an ID without holding a number.
C8_OcrNeverFatal == []OcrHarmless /\ <>(pc \in Terminal)

\* a finished run in which OCR was asked for, the engine could not be loaded,
\* and the text-layer records were returned
C8_Witness ==
    /\ pc = "done"
    /\ ocr_inits = 1
    /\ ~engine.init_ok
    /\ result.status = "success"
    /\ result.count > 0

\* the lines of a page text
LinesOf(t) == {Split(t, NL)[k] : k \in 1..Len(Split(t, NL))}

\* C9: on every page of the text-layer pass and of the OCR pass, a line that
\* is_seal_like_text judges noise is not a line of the page text.
C9_NoNoiseInPageText ==
    /\ \A p \in 1..Len(page_texts) :
          \A k \in 1..Len(AssembledLines(pdf[p])) :
             is_seal_like_text(AssembledLines(pdf[p])[k])
                => AssembledLines(pdf[p])[k] \notin LinesOf(page_texts[p])
    /\ \A p \in 1..Len(full_text) :
          \A k \in 1..Len(engine.pages[p]) :
             is_seal_like_text(engine.pages[p][k].text)
                => engine.pages[p][k].text \notin LinesOf(full_text[p])

\* C10: a successful result carries, besides the records and their count, a flag
\* that is true exactly when OCR text was obtained and merged.
C10_OcrFlag ==
    pc = "done" /\ result.status = "success" =>
       \E k \in DOMAIN result \ {"path", "records", "count", "status"} :
          result[k] = Truthy(ocr_text)

====
